---- MODULE Spec2Model ----
(***************************************************************************)
(* A model of hadoop/fs/webhdfs.py: the WebHdfs client (the filesystem     *)
(* facade over the WebHDFS REST protocol), its per-thread identity, the    *)
(* existence-suppressing stat path, the boolean-outcome mutations and the  *)
(* two-leg redirect protocol of create and append.                         *)
(*                                                                         *)
(* Python values are tagged records (PyNone, PyBool, PyStr, PyInt, a       *)
(* WebHdfsStat), a dict is a function from its keys, an exception is a     *)
(* record, and what a call does is an Outcome: it returns a value or       *)
(* raises an exception.  Paths are drawn from normalized ASCII paths, on   *)
(* which Hdfs.normpath and encode_fs_path change nothing.                  *)
(***************************************************************************)
EXTENDS Integers, Sequences, FiniteSets, TLC

\* ------------------------------------------------------------------ bounds

NumThreads == 2
NumPaths == 2
\* The largest length the server reports for a file, and the most bytes the
\* program asks for in one read.
MaxLen == 2
\* The furthest the program moves a File object's cursor.
MaxPos == 2

PathNames == <<"/a", "/b", "/c", "/d">>
Paths == {PathNames[i] : i \in 1..NumPaths}

\* Thread 0 is the thread that constructed the client.
Threads == 0..(NumThreads - 1)
MainThread == 0

DEFAULT_USER == "hue_webui"
Users == {DEFAULT_USER, "alice"}

\* threading.local(): a thread that never assigned .user has no such attribute.
NoAttr == "<no attribute>"
\* The identity most recently given to setuser on a thread, before any call.
NeverSet == "<never set>"

\* ------------------------------------------------------------ Python values

PyNone == [py |-> "None"]
PyBool(b) == [py |-> "bool", b |-> b]
PyStr(s) == [py |-> "str", s |-> s]
PyInt(i) == [py |-> "int", i |-> i]

PyList(items) == [py |-> "list", items |-> items]
EmptyDict == [k \in {} |-> "None"]

\* The truth value Python gives a decoded response in `if not success`.
PyTruth(v) ==
  IF v = PyNone THEN FALSE
  ELSE IF DOMAIN v = {} THEN FALSE
  ELSE IF "py" \in DOMAIN v /\ v.py = "bool" THEN v.b
  ELSE TRUE

\* --------------------------------------------------------------- exceptions

NoParent == [kind |-> "None", code |-> 0, location |-> "None"]
HTTPError(code, location) == [kind |-> "HTTPError", code |-> code, location |-> location]
\* A parent exception that is no HTTP error: it has no .code and no .headers.
OpaqueParent == [kind |-> "Opaque", code |-> 0, location |-> "None"]

Exc(cls, errno, msg, server_exc, parent) ==
  [cls |-> cls, errno |-> errno, msg |-> msg, server_exc |-> server_exc,
   parent |-> parent]

WebHdfsException(msg, server_exc, parent) ==
  Exc("WebHdfsException", "None", msg, server_exc, parent)
IOError(errno, msg) == Exc("IOError", errno, msg, "None", NoParent)
AttributeError(msg) == Exc("AttributeError", "None", msg, "None", NoParent)
KeyError(key) == Exc("KeyError", "None", key, "None", NoParent)
TypeError(msg) == Exc("TypeError", "None", msg, "None", NoParent)
NoExc == Exc("None", "None", "", "None", NoParent)

\* ----------------------------------------------------------------- outcomes

Return(v) == [tag |-> "return", value |-> v, exc |-> NoExc]
Raise(e) == [tag |-> "raise", value |-> PyNone, exc |-> e]
NoReply == [tag |-> "none", value |-> PyNone, exc |-> NoExc]

\* One HTTP request as the transport sees it.
Request(t, url, method, relpath, params, data, json_decode) ==
  [thread |-> t, url |-> url, method |-> method, relpath |-> relpath,
   params |-> params, data |-> data, json_decode |-> json_decode]

\* What one call did: the requests it issued, the server's replies to the first
\* and to the second of them, and what the caller got.
Call(reqs, reply, reply2, result) ==
  [reqs |-> reqs, reply |-> reply, reply2 |-> reply2, result |-> result]

VARIABLES
  thread_local,   \* self._thread_local.user, per thread (NoAttr: not assigned)
  last_set,       \* history: the identity last given to setuser on each thread
  fs,             \* the server's namespace: what each path is
  srv_fault,      \* the condition under which the server answers metadata reads
  file,           \* the File object the program holds (f = fs.open(path, mode))
  last            \* the most recent call on the client and what it did

vars == <<thread_local, last_set, fs, srv_fault, file, last>>

\* ------------------------------------------------------------------- server

EntryTypes == {"FILE", "DIRECTORY"}
Absent == "ABSENT"

\* "none": metadata reads are answered from the namespace.  Otherwise every
\* metadata read fails: with a server-reported exception name, with an HTTP
\* error that carries no server exception, or with a decodable body that is
\* not a FileStatus document.
ServerFaults == {"none", "AccessControlException", "NoServerException", "MalformedBody"}

\* The reply to GET <path>?op=GETFILESTATUS, as self._root.get gives it back.
ServerGetFileStatus(path) ==
  IF srv_fault = "AccessControlException"
    THEN Raise(WebHdfsException("Permission denied", "AccessControlException",
                                HTTPError(403, "None")))
  ELSE IF srv_fault = "NoServerException"
    THEN Raise(WebHdfsException("Internal Server Error", "None",
                                HTTPError(500, "None")))
  ELSE IF srv_fault = "MalformedBody"
    THEN Return(EmptyDict)
  ELSE IF fs[path] = Absent
    THEN Raise(WebHdfsException("File does not exist: " \o path,
                                "FileNotFoundException", HTTPError(404, "None")))
  ELSE Return([FileStatus |-> [type |-> fs[path], pathSuffix |-> ""]])

\* WebHdfsStat(json['FileStatus'], path): the entry's path and whether its
\* type is a directory.
WebHdfsStat(file_status, parent_path) ==
  [py |-> "WebHdfsStat",
   path |-> IF file_status.pathSuffix = "" THEN parent_path
            ELSE parent_path \o "/" \o file_status.pathSuffix,
   isDir |-> (file_status.type = "DIRECTORY")]

\* What a directory can hold, as the FileStatus array of a LISTSTATUS reply.
Listings ==
  { <<>>,
    <<[type |-> "FILE", pathSuffix |-> "x.txt"]>>,
    <<[type |-> "DIRECTORY", pathSuffix |-> "sub"],
      [type |-> "FILE", pathSuffix |-> "x.txt"]>> }

\* The reply to GET <path>?op=LISTSTATUS when the directory holds `entries`: a
\* file lists as itself, with an empty pathSuffix.
ServerListStatus(path, entries) ==
  IF srv_fault = "AccessControlException"
    THEN Raise(WebHdfsException("Permission denied", "AccessControlException",
                                HTTPError(403, "None")))
  ELSE IF srv_fault = "NoServerException"
    THEN Raise(WebHdfsException("Internal Server Error", "None",
                                HTTPError(500, "None")))
  ELSE IF srv_fault = "MalformedBody"
    THEN Return(EmptyDict)
  ELSE IF fs[path] = Absent
    THEN Raise(WebHdfsException("File does not exist: " \o path,
                                "FileNotFoundException", HTTPError(404, "None")))
  ELSE IF fs[path] = "FILE"
    THEN Return([FileStatuses |->
                   [FileStatus |-> <<[type |-> "FILE", pathSuffix |-> ""]>>]])
  ELSE Return([FileStatuses |-> [FileStatus |-> entries]])

\* ----------------------------------------------------------------- identity

\* A client that keeps the identity in one attribute shared by all threads.
SetThreadLocalUser_Shared(t, user) == [x \in Threads |-> user]

\* self._thread_local.user = user, on thread t alone.
SetThreadLocalUser(t, user) == [thread_local EXCEPT ![t] = user]

\* { "user.name" : self._thread_local.user }
_getparams(t) ==
  IF thread_local[t] = NoAttr
    THEN Raise(AttributeError("'thread._local' object has no attribute 'user'"))
    ELSE Return("user.name" :> thread_local[t])

\* params[key] = value
SetItem(params, key, value) == (key :> value) @@ params

\* The base URL of the client's own resource (self._url).
SelfUrl == "self._url"

\* ------------------------------------------------------------- stat family

\* A stat path that takes every WebHdfsException for an absent entry.
_stats_SwallowAll(t, path) ==
  LET got == _getparams(t) IN
  IF got.tag = "raise" THEN Call(<<>>, NoReply, NoReply, got)
  ELSE
    LET params == SetItem(got.value, "op", "GETFILESTATUS")
        req == Request(t, SelfUrl, "GET", path, params, PyNone, TRUE)
        reply == ServerGetFileStatus(path)
        result ==
          IF reply.tag = "return"
            THEN IF "FileStatus" \in DOMAIN reply.value
                   THEN Return(WebHdfsStat(reply.value.FileStatus, path))
                   ELSE Raise(KeyError("FileStatus"))
          ELSE IF reply.exc.cls = "WebHdfsException"
            THEN Return(PyNone)
          ELSE Raise(reply.exc)
    IN Call(<<req>>, reply, NoReply, result)

\* The version of stats that returns None if the entry is not found.
_stats(t, path) ==
  LET got == _getparams(t) IN
  IF got.tag = "raise" THEN Call(<<>>, NoReply, NoReply, got)
  ELSE
    LET params == SetItem(got.value, "op", "GETFILESTATUS")
        req == Request(t, SelfUrl, "GET", path, params, PyNone, TRUE)
        reply == ServerGetFileStatus(path)
        result ==
          IF reply.tag = "return"
            THEN IF "FileStatus" \in DOMAIN reply.value
                   THEN Return(WebHdfsStat(reply.value.FileStatus, path))
                   ELSE Raise(KeyError("FileStatus"))
          ELSE IF reply.exc.cls = "WebHdfsException"
            THEN IF reply.exc.server_exc = "FileNotFoundException"
                   THEN Return(PyNone)
                   ELSE Raise(reply.exc)
          ELSE Raise(reply.exc)
    IN Call(<<req>>, reply, NoReply, result)

stats(t, path) ==
  LET c == _stats(t, path) IN
  IF c.result.tag = "raise" THEN c
  ELSE IF c.result.value # PyNone THEN c
  ELSE Call(c.reqs, c.reply, NoReply, Raise(IOError("ENOENT", "File " \o path \o " not found")))

\* An exists that answers whether the entry is missing.
exists_IsNone(t, path) ==
  LET c == _stats(t, path) IN
  IF c.result.tag = "raise" THEN c
  ELSE Call(c.reqs, c.reply, NoReply, Return(PyBool(c.result.value = PyNone)))

exists(t, path) ==
  LET c == _stats(t, path) IN
  IF c.result.tag = "raise" THEN c
  ELSE Call(c.reqs, c.reply, NoReply, Return(PyBool(c.result.value # PyNone)))

isdir(t, path) ==
  LET c == _stats(t, path) IN
  IF c.result.tag = "raise" THEN c
  ELSE IF c.result.value = PyNone THEN Call(c.reqs, c.reply, NoReply, Return(PyBool(FALSE)))
  ELSE Call(c.reqs, c.reply, NoReply, Return(PyBool(c.result.value.isDir)))

\* An isfile that answers whether there is an entry at all.
isfile_AnyEntry(t, path) ==
  LET c == _stats(t, path) IN
  IF c.result.tag = "raise" THEN c
  ELSE Call(c.reqs, c.reply, NoReply, Return(PyBool(c.result.value # PyNone)))

isfile(t, path) ==
  LET c == _stats(t, path) IN
  IF c.result.tag = "raise" THEN c
  ELSE IF c.result.value = PyNone THEN Call(c.reqs, c.reply, NoReply, Return(PyBool(FALSE)))
  ELSE Call(c.reqs, c.reply, NoReply, Return(PyBool(~c.result.value.isDir)))

\* ------------------------------------------------------------------ listing

\* The glob a listing is filtered by.
Globs == {PyNone, PyStr("*.txt")}

\* listdir_stats(self, path, glob=None), called with the positional arguments
\* `args` after the bound self: Python raises TypeError before the body runs
\* when they are not one or two.
listdir_stats(t, args, reply) ==
  IF Len(args) > 2
    THEN Call(<<>>, NoReply, NoReply,
              Raise(TypeError("listdir_stats() takes at most 3 arguments")))
  ELSE IF Len(args) < 1
    THEN Call(<<>>, NoReply, NoReply,
              Raise(TypeError("listdir_stats() takes at least 2 arguments")))
  ELSE
    LET path == args[1]
        glob == IF Len(args) = 2 THEN args[2] ELSE PyNone
        got == _getparams(t)
    IN
    IF got.tag = "raise" THEN Call(<<>>, NoReply, NoReply, got)
    ELSE
      LET p1 == IF glob # PyNone THEN SetItem(got.value, "filter", glob.s)
                ELSE got.value
          params == SetItem(p1, "op", "LISTSTATUS")
          req == Request(t, SelfUrl, "GET", path, params, PyNone, TRUE)
          result ==
            IF reply.tag = "raise" THEN reply
            ELSE IF "FileStatuses" \notin DOMAIN reply.value
              THEN Raise(KeyError("FileStatuses"))
            ELSE LET filestatus_list == reply.value.FileStatuses.FileStatus IN
                 Return(PyList([i \in 1..Len(filestatus_list) |->
                                  WebHdfsStat(filestatus_list[i], path)]))
      IN Call(<<req>>, reply, NoReply, result)

\* [x.path for x in dirents]
EntryPaths(dirents) ==
  PyList([i \in 1..Len(dirents.items) |-> dirents.items[i].path])

\* dirents = self.listdir_stats(self, path, glob): the client is passed a
\* second time, as the first positional argument.
listdir(t, path, glob, reply) ==
  LET c == listdir_stats(t, <<"self", path, glob>>, reply) IN
  IF c.result.tag = "raise" THEN c
  ELSE Call(c.reqs, c.reply, NoReply, Return(EntryPaths(c.result.value)))

\* ------------------------------------------------------------- permissions

OctalDigit == <<"0", "1", "2", "3", "4", "5", "6", "7">>

RECURSIVE OctalDigits(_)
OctalDigits(n) ==
  IF n < 8 THEN OctalDigit[n + 1]
  ELSE OctalDigits(n \div 8) \o OctalDigit[(n % 8) + 1]

\* Python 2's oct() of an int: '0' for 0, else a leading '0' and the digits.
oct(n) ==
  IF n = 0 THEN "0"
  ELSE IF n < 0 THEN "-0" \o OctalDigits(-n)
  ELSE "0" \o OctalDigits(n)

\* oct(octal_value), and str(octal_value) when oct raises TypeError, as it
\* does for a string (and for None).
safe_octal(octal_value) ==
  IF octal_value.py = "int" THEN oct(octal_value.i)
  ELSE IF octal_value.py = "str" THEN octal_value.s
  ELSE "None"

\* ---------------------------------------------------------------- mutations

\* `recursive and 'true' or 'false'`
TrueFalse(b) == IF b THEN "true" ELSE "false"

\* result['boolean'] of a decoded reply: the value, or KeyError.
HasBoolean(json) == "boolean" \in DOMAIN json

\* A _delete that tests the decoded reply itself, as mkdir does.
_delete_Truthy(t, path, recursive, reply) ==
  LET got == _getparams(t) IN
  IF got.tag = "raise" THEN Call(<<>>, NoReply, NoReply, got)
  ELSE
    LET params == SetItem(SetItem(got.value, "op", "DELETE"),
                          "recursive", TrueFalse(recursive))
        req == Request(t, SelfUrl, "DELETE", path, params, PyNone, TRUE)
        result ==
          IF reply.tag = "raise" THEN reply
          ELSE IF ~PyTruth(reply.value)
            THEN Raise(IOError("None", "Delete failed: " \o path))
          ELSE Return(PyNone)
    IN Call(<<req>>, reply, NoReply, result)

_delete(t, path, recursive, reply) ==
  LET got == _getparams(t) IN
  IF got.tag = "raise" THEN Call(<<>>, NoReply, NoReply, got)
  ELSE
    LET params == SetItem(SetItem(got.value, "op", "DELETE"),
                          "recursive", TrueFalse(recursive))
        req == Request(t, SelfUrl, "DELETE", path, params, PyNone, TRUE)
        result ==
          IF reply.tag = "raise" THEN reply
          ELSE IF ~HasBoolean(reply.value) THEN Raise(KeyError("boolean"))
          ELSE IF ~reply.value.boolean
            THEN Raise(IOError("None", "Delete failed: " \o path))
          ELSE Return(PyNone)
    IN Call(<<req>>, reply, NoReply, result)

remove(t, path, reply) == _delete(t, path, FALSE, reply)

rmdir(t, path, reply) == _delete(t, path, FALSE, reply)

rmtree(t, path, reply) == _delete(t, path, TRUE, reply)

mkdir(t, path, mode, reply) ==
  LET got == _getparams(t) IN
  IF got.tag = "raise" THEN Call(<<>>, NoReply, NoReply, got)
  ELSE
    LET p1 == SetItem(got.value, "op", "MKDIRS")
        params == IF mode # PyNone
                    THEN SetItem(p1, "permission", safe_octal(mode))
                    ELSE p1
        req == Request(t, SelfUrl, "PUT", path, params, PyNone, TRUE)
        result ==
          IF reply.tag = "raise" THEN reply
          ELSE IF ~PyTruth(reply.value)
            THEN Raise(IOError("None", "Mkdir failed: " \o path))
          ELSE Return(PyNone)
    IN Call(<<req>>, reply, NoReply, result)

rename(t, old, new, reply) ==
  LET got == _getparams(t) IN
  IF got.tag = "raise" THEN Call(<<>>, NoReply, NoReply, got)
  ELSE
    LET params == SetItem(SetItem(got.value, "op", "RENAME"), "destination", new)
        req == Request(t, SelfUrl, "PUT", old, params, PyNone, TRUE)
        result ==
          IF reply.tag = "raise" THEN reply
          ELSE IF ~HasBoolean(reply.value) THEN Raise(KeyError("boolean"))
          ELSE IF ~reply.value.boolean
            THEN Raise(IOError("None", "Rename failed: " \o old \o " -> " \o new))
          ELSE Return(PyNone)
    IN Call(<<req>>, reply, NoReply, result)

\* What the server may answer to a mutation: the structured outcome, a body
\* without one, or a refusal.
BooleanReplies ==
  { Return([boolean |-> TRUE]), Return([boolean |-> FALSE]), Return(EmptyDict),
    Raise(WebHdfsException("Permission denied", "AccessControlException",
                           HTTPError(403, "None"))) }

\* The server applied the mutation: the request reached it and it said true.
Applied(c) ==
  /\ Len(c.reqs) > 0
  /\ c.reply.tag = "return"
  /\ HasBoolean(c.reply.value)
  /\ c.reply.value.boolean

SaidTrue(reply) == reply = Return([boolean |-> TRUE])

\* ------------------------------------------------------- the redirect protocol

\* `http_error.code not in (301, 302, 303, 307)`
REDIRECT_CODES == {301, 302, 303, 307}

\* A _get_redirect_url that takes the location of any HTTP error.
_get_redirect_url_AnyStatus(webhdfs_ex) ==
  LET http_error == webhdfs_ex.parent IN
  IF http_error.kind = "None" THEN Raise(webhdfs_ex)
  ELSE IF http_error.kind # "HTTPError" THEN Raise(webhdfs_ex)
  ELSE Return(http_error.location)

\* Retrieve the redirect url from an exception object.  Every failure inside
\* the try (no parent, a parent without .code or .headers, a status that is no
\* redirect) ends in `raise webhdfs_ex`; a missing location header is no
\* failure: getheader gives None.
_get_redirect_url(webhdfs_ex) ==
  LET http_error == webhdfs_ex.parent IN
  IF http_error.kind = "None" THEN Raise(webhdfs_ex)
  ELSE IF http_error.kind # "HTTPError" THEN Raise(webhdfs_ex)
  ELSE IF http_error.code \notin REDIRECT_CODES THEN Raise(webhdfs_ex)
  ELSE Return(http_error.location)

\* A second leg that always PUTs.
SecondLeg_AlwaysPut(t, method, next_url, data) ==
  Request(t, next_url, "PUT", "None", EmptyDict, data, FALSE)

\* resource.Resource(self._make_client(next_url)).invoke(method, data=data,
\* json_decode=False): no relative path, no parameters.
SecondLeg(t, method, next_url, data) ==
  Request(t, next_url, method, "None", EmptyDict, data, FALSE)

\* "Failed to create '%s'. HDFS did not return a redirect" % (path,)
NoRedirectError(path) ==
  WebHdfsException("Failed to create '" \o path \o "'. HDFS did not return a redirect",
                   "None", NoParent)

\* An _invoke_with_redirect that takes a first leg that succeeds for the whole
\* write.
_invoke_with_redirect_AcceptSuccess(t, method, path, params, data, primary, second) ==
  LET first == Request(t, SelfUrl, method, path, params, PyNone, TRUE)
      next_url ==
        IF primary.tag = "return" THEN Return("None")
        ELSE IF primary.exc.cls = "WebHdfsException"
          THEN _get_redirect_url(primary.exc)
        ELSE primary
  IN IF next_url.tag = "raise"
       THEN Call(<<first>>, primary, NoReply, next_url)
     ELSE IF next_url.value = "None"
       THEN IF primary.tag = "return"
              THEN Call(<<first>>, primary, NoReply, primary)
              ELSE Call(<<first>>, primary, NoReply, Raise(NoRedirectError(path)))
     ELSE Call(<<first, SecondLeg(t, method, next_url.value, data)>>,
               primary, second, second)

\* An _invoke_with_redirect that sends the data with the first leg too.
_invoke_with_redirect_DataInFirstLeg(t, method, path, params, data, primary, second) ==
  LET first == Request(t, SelfUrl, method, path, params, data, TRUE)
      next_url ==
        IF primary.tag = "return" THEN Return("None")
        ELSE IF primary.exc.cls = "WebHdfsException"
          THEN _get_redirect_url(primary.exc)
        ELSE primary
  IN IF next_url.tag = "raise"
       THEN Call(<<first>>, primary, NoReply, next_url)
     ELSE IF next_url.value = "None"
       THEN Call(<<first>>, primary, NoReply, Raise(NoRedirectError(path)))
     ELSE Call(<<first, SecondLeg(t, method, next_url.value, data)>>,
               primary, second, second)

\* An _invoke_with_redirect that lets the redirect of the first leg reach the
\* caller once the second leg is done.
_invoke_with_redirect_LeakRedirect(t, method, path, params, data, primary, second) ==
  LET first == Request(t, SelfUrl, method, path, params, PyNone, TRUE)
      next_url ==
        IF primary.tag = "return" THEN Return("None")
        ELSE IF primary.exc.cls = "WebHdfsException"
          THEN _get_redirect_url(primary.exc)
        ELSE primary
  IN IF next_url.tag = "raise"
       THEN Call(<<first>>, primary, NoReply, next_url)
     ELSE IF next_url.value = "None"
       THEN Call(<<first>>, primary, NoReply, Raise(NoRedirectError(path)))
     ELSE Call(<<first, SecondLeg(t, method, next_url.value, data)>>,
               primary, second, primary)

\* Issue a request, expect a redirect, then submit the data to the redirected
\* location.  primary and second are what the two invocations do.
_invoke_with_redirect(t, method, path, params, data, primary, second) ==
  LET first == Request(t, SelfUrl, method, path, params, PyNone, TRUE)
      next_url ==
        IF primary.tag = "return" THEN Return("None")
        ELSE IF primary.exc.cls = "WebHdfsException"
          THEN _get_redirect_url(primary.exc)
        ELSE primary
  IN IF next_url.tag = "raise"
       THEN Call(<<first>>, primary, NoReply, next_url)
     ELSE IF next_url.value = "None"
       THEN Call(<<first>>, primary, NoReply, Raise(NoRedirectError(path)))
     ELSE Call(<<first, SecondLeg(t, method, next_url.value, data)>>,
               primary, second, second)

\* The arguments of create besides the path and the data.
CreateParams(got, overwrite, blocksize, replication, permission) ==
  LET p1 == SetItem(SetItem(got, "op", "CREATE"), "overwrite", TrueFalse(overwrite))
      p2 == IF blocksize # PyNone
              THEN SetItem(p1, "blocksize", ToString(blocksize.i)) ELSE p1
      p3 == IF replication # PyNone
              THEN SetItem(p2, "replication", ToString(replication.i)) ELSE p2
  IN IF permission # PyNone
       THEN SetItem(p3, "permission", safe_octal(permission)) ELSE p3

\* create has no return statement: what _invoke_with_redirect returns is dropped.
create(t, path, overwrite, blocksize, replication, permission, data, primary, second) ==
  LET got == _getparams(t) IN
  IF got.tag = "raise" THEN Call(<<>>, NoReply, NoReply, got)
  ELSE
    LET params == CreateParams(got.value, overwrite, blocksize, replication, permission)
        c == _invoke_with_redirect(t, "PUT", path, params, data, primary, second)
    IN IF c.result.tag = "return"
         THEN Call(c.reqs, c.reply, c.reply2, Return(PyNone))
         ELSE c

append(t, path, data, primary, second) ==
  LET got == _getparams(t) IN
  IF got.tag = "raise" THEN Call(<<>>, NoReply, NoReply, got)
  ELSE
    LET params == SetItem(got.value, "op", "APPEND")
        c == _invoke_with_redirect(t, "POST", path, params, data, primary, second)
    IN IF c.result.tag = "return"
         THEN Call(c.reqs, c.reply, c.reply2, Return(PyNone))
         ELSE c

\* What the first leg may do: succeed, or fail with a WebHdfsException that
\* wraps nothing, something that is no HTTP error, or an HTTP error with some
\* status and some (or no) location header; or fail below the HTTP client.
Codes == REDIRECT_CODES \cup {308, 403}
Locations == {"None", "http://dn1:50075/w", "http://dn2:50075/w"}

PrimaryOutcomes ==
  {Return(PyNone)}
  \cup {Raise(WebHdfsException("first leg", "None", par)) :
          par \in {NoParent, OpaqueParent}
                  \cup {HTTPError(c, l) : c \in Codes, l \in Locations}}
  \cup {Raise(Exc("socket.error", "ECONNREFUSED", "connection refused", "None", NoParent))}

\* What the second leg may do: succeed with a body nobody decodes, or fail.
SecondOutcomes ==
  { Return(PyStr("")),
    Raise(WebHdfsException("second leg", "IOException", HTTPError(500, "None"))) }

Payloads == {PyNone, PyStr("hi")}

\* The optional arguments create is called with.
CreateArgs ==
  { [overwrite |-> FALSE, blocksize |-> PyNone, replication |-> PyNone,
     permission |-> PyNone],
    [overwrite |-> TRUE, blocksize |-> PyInt(1048576), replication |-> PyInt(3),
     permission |-> PyInt(493)],
    [overwrite |-> FALSE, blocksize |-> PyNone, replication |-> PyNone,
     permission |-> PyStr("755")] }

\* The data reached a datanode and was stored.
Stored(c) == Len(c.reqs) = 2 /\ c.result.tag = "return"

\* ------------------------------------------------------------------ history

\* The record of one call: who made it, which operation, on what, and what it
\* did.  path2 is rename's destination, data the payload of create and append
\* and the glob of a listing.
Done(t, op, path, path2, data, c) ==
  [thread |-> t, op |-> op, path |-> path, path2 |-> path2, data |-> data,
   reqs |-> c.reqs, reply |-> c.reply, reply2 |-> c.reply2,
   result |-> c.result]

NoCall == Call(<<>>, NoReply, NoReply, Return(PyNone))

\* No call is in progress and the last one's outcome has been taken.
Nothing == Done(MainThread, "idle", "None", "None", PyNone, NoCall)
Idle == last = Nothing

\* ------------------------------------------------------------- file handles

\* No File object has been made yet.  at_open is history: what the path was on
\* the server when the object was made.
NoFile ==
  [open |-> FALSE, path |-> "None", pos |-> 0, mode |-> "r", stat |-> PyNone,
   at_open |-> "None"]

\* from hadoop.fs import SEEK_SET, SEEK_CUR, SEEK_END
SEEK_SET == 0
SEEK_CUR == 1
SEEK_END == 2

PyFile == [py |-> "File"]

\* The lengths the server reports for a file: its content changes under the
\* client, which is never its only writer.
Lengths == 0..MaxLen

\* data of n bytes.
Bytes(n) == IF n = 0 THEN "" ELSE IF n = 1 THEN "h" ELSE IF n = 2 THEN "hi"
            ELSE IF n = 3 THEN "hi!" ELSE "hi!!"

\* The FileStatus reply and the WebHdfsStat made of it with the length that the
\* server reports for the entry (0 for a directory).
WithLength(c, length) ==
  IF c.result.tag = "return" /\ c.result.value # PyNone
    THEN LET st == c.result.value
             n == IF st.isDir THEN 0 ELSE length
         IN Call(c.reqs,
                 Return([FileStatus |->
                           [type |-> c.reply.value.FileStatus.type,
                            pathSuffix |-> c.reply.value.FileStatus.pathSuffix,
                            length |-> n]]),
                 c.reply2,
                 Return([py |-> "WebHdfsStat", path |-> st.path,
                         isDir |-> st.isDir, length |-> n]))
  ELSE c

\* The reply to GET <path>?op=OPEN&offset=..&length=.. as self._root.get_raw
\* gives it back: n bytes of the file, or the server's refusal.
ServerOpen(path, n) ==
  IF srv_fault = "AccessControlException"
    THEN Raise(WebHdfsException("Permission denied", "AccessControlException",
                                HTTPError(403, "None")))
  ELSE IF srv_fault = "NoServerException"
    THEN Raise(WebHdfsException("Internal Server Error", "None",
                                HTTPError(500, "None")))
  ELSE IF fs[path] = Absent
    THEN Raise(WebHdfsException("File does not exist: " \o path,
                                "FileNotFoundException", HTTPError(404, "None")))
  ELSE IF fs[path] = "DIRECTORY"
    THEN Raise(WebHdfsException("Path is not a file: " \o path,
                                "FileNotFoundException", HTTPError(404, "None")))
  ELSE Return(PyStr(Bytes(n)))

\* read(path, offset, length[, bufsize]) -> data
read(t, path, offset, length, bufsize, reply) ==
  LET got == _getparams(t) IN
  IF got.tag = "raise" THEN Call(<<>>, NoReply, NoReply, got)
  ELSE
    LET p1 == SetItem(got.value, "op", "OPEN")
        p2 == SetItem(p1, "offset", ToString(offset))
        p3 == SetItem(p2, "length", ToString(length))
        params == IF bufsize # PyNone
                    THEN SetItem(p3, "bufsize", ToString(bufsize.i)) ELSE p3
        req == Request(t, SelfUrl, "GET", path, params, PyNone, FALSE)
    IN Call(<<req>>, reply, NoReply, reply)

\* What a method of the File object did: the call it made of the facade, and
\* the object after it (f itself when the constructor raised).
Did(c, f) == [call |-> c, file |-> f]

\* File(fs, path, mode).  IOError(EISDIR) is raised inside the try block and
\* caught by its own except clause.
File__init__(t, path, mode, length) ==
  LET c == WithLength(stats(t, path), length)
      self(stat) == [open |-> TRUE, path |-> path, pos |-> 0, mode |-> mode,
                     stat |-> stat, at_open |-> fs[path]]
      made(stat) == Did(Call(c.reqs, c.reply, NoReply, Return(PyFile)), self(stat))
  IN IF c.result.tag = "return"
       THEN IF c.result.value.isDir
              THEN made(PyNone)
              ELSE made(c.result.value)
     ELSE IF c.result.exc.cls = "IOError"
       THEN IF c.result.exc.errno = "ENOENT" /\ mode = "r"
              THEN Did(c, file)
              ELSE made(PyNone)
     ELSE Did(c, file)

\* stat(): self._stat = self._fs.stats(self._path); return self._stat
File_stat(t, length) ==
  LET c == WithLength(stats(t, file.path), length) IN
  IF c.result.tag = "return"
    THEN Did(c, [file EXCEPT !.stat = c.result.value])
    ELSE Did(c, file)

\* seek from the end: `first` is what self.stat() did and c the stats call
\* after it, whose length counts.
SeekFromEnd(offset, first, c) ==
  IF first.call.result.tag = "raise" THEN first
  ELSE IF c.result.tag = "raise"
    THEN Did(Call(first.call.reqs \o c.reqs, first.call.reply, c.reply, c.result),
             first.file)
  ELSE Did(Call(first.call.reqs \o c.reqs, first.call.reply, c.reply,
                Return(PyNone)),
           [first.file EXCEPT !.pos = c.result.value.length + offset])

\* seek(offset, whence)
File_seek(t, offset, whence, length, length2) ==
  IF whence = SEEK_SET
    THEN Did(NoCall, [file EXCEPT !.pos = offset])
  ELSE IF whence = SEEK_CUR
    THEN Did(NoCall, [file EXCEPT !.pos = file.pos + offset])
  ELSE IF whence = SEEK_END
    THEN SeekFromEnd(offset, File_stat(t, length),
                     WithLength(stats(t, file.path), length2))
  ELSE Did(Call(<<>>, NoReply, NoReply,
                Raise(IOError("EINVAL", "Invalid argument to seek for whence"))),
           file)

\* tell()
File_tell == Did(Call(<<>>, NoReply, NoReply, Return(PyInt(file.pos))), file)

\* A read that moves the cursor by the length it asked for.
File_read_AdvanceByRequest(t, length, reply) ==
  LET c == read(t, file.path, file.pos, length, PyNone, reply) IN
  IF c.result.tag = "return"
    THEN Did(c, [file EXCEPT !.pos = file.pos + length])
    ELSE Did(c, file)

\* read(length): the cursor moves by len(data).
File_read(t, length, reply) ==
  LET c == read(t, file.path, file.pos, length, PyNone, reply) IN
  IF c.result.tag = "return"
    THEN Did(c, [file EXCEPT !.pos = file.pos + Len(c.result.value.s)])
    ELSE Did(c, file)

\* The modes a File object is made with, and `'w' in self._mode`.
FileModes == {"r", "w"}
Has_w(mode) == mode \in {"w", "rw", "wb"}

\* self._stat is None: "File not there yet."
NotThereYet == file.stat = PyNone

\* An append that takes the file for there once it has stored data in it.
File_append_RememberCreate(t, data, primary, second) ==
  IF ~Has_w(file.mode)
    THEN Did(Call(<<>>, NoReply, NoReply,
                  Raise(IOError("EINVAL", "File not open for writing"))), file)
  ELSE IF NotThereYet
    THEN LET c == create(t, file.path, FALSE, PyNone, PyNone, PyNone, data,
                         primary, second)
         IN Did(c, IF c.result.tag = "return"
                     THEN [file EXCEPT !.stat =
                             [py |-> "WebHdfsStat", path |-> file.path,
                              isDir |-> FALSE, length |-> 0]]
                     ELSE file)
  ELSE Did(append(t, file.path, data, primary, second), file)

\* An append that does not look at the mode.
File_append_AnyMode(t, data, primary, second) ==
  IF NotThereYet
    THEN Did(create(t, file.path, FALSE, PyNone, PyNone, PyNone, data,
                    primary, second), file)
  ELSE Did(append(t, file.path, data, primary, second), file)

\* append(data): create when no stat is recorded, else append; the object is
\* left as it was.
File_append(t, data, primary, second) ==
  IF ~Has_w(file.mode)
    THEN Did(Call(<<>>, NoReply, NoReply,
                  Raise(IOError("EINVAL", "File not open for writing"))), file)
  ELSE IF NotThereYet
    THEN Did(create(t, file.path, FALSE, PyNone, PyNone, PyNone, data,
                    primary, second), file)
  ELSE Did(append(t, file.path, data, primary, second), file)

\* write(data): self.append(data)
File_write(t, data, primary, second) == File_append(t, data, primary, second)

\* close(): pass
File_close == Did(NoCall, file)

\* The record of one call on the File object: as Done, with the object before
\* the call and the call's arguments.
FileDone(t, op, path, data, d, arg) ==
  [thread |-> t, op |-> op, path |-> path, path2 |-> "None", data |-> data,
   reqs |-> d.call.reqs, reply |-> d.call.reply, reply2 |-> d.call.reply2,
   result |-> d.call.result, before |-> file, arg |-> arg]

NoArg == [mode |-> "None", offset |-> 0, whence |-> 0, length |-> 0]

\* --------------------------------------------------------- the client's state

\* After WebHdfs.__init__ on MainThread: only that thread has an identity.
Init ==
  /\ thread_local = [t \in Threads |-> IF t = MainThread THEN DEFAULT_USER ELSE NoAttr]
  /\ last_set = [t \in Threads |-> IF t = MainThread THEN DEFAULT_USER ELSE NeverSet]
  /\ fs = [p \in Paths |-> Absent]
  /\ file = NoFile
  /\ srv_fault = "none"
  /\ last = Nothing

setuser(t, user) ==
  /\ Idle
  /\ thread_local' = SetThreadLocalUser(t, user)
  /\ last_set' = [last_set EXCEPT ![t] = user]
  /\ last' = Done(t, "setuser", "None", "None", PyNone, NoCall)
  /\ UNCHANGED <<fs, srv_fault, file>>

StatsCall(t, path) ==
  /\ Idle
  /\ last' = Done(t, "stats", path, "None", PyNone, stats(t, path))
  /\ UNCHANGED <<thread_local, last_set, fs, srv_fault, file>>

ExistsCall(t, path) ==
  /\ Idle
  /\ last' = Done(t, "exists", path, "None", PyNone, exists(t, path))
  /\ UNCHANGED <<thread_local, last_set, fs, srv_fault, file>>

IsDirCall(t, path) ==
  /\ Idle
  /\ last' = Done(t, "isdir", path, "None", PyNone, isdir(t, path))
  /\ UNCHANGED <<thread_local, last_set, fs, srv_fault, file>>

IsFileCall(t, path) ==
  /\ Idle
  /\ last' = Done(t, "isfile", path, "None", PyNone, isfile(t, path))
  /\ UNCHANGED <<thread_local, last_set, fs, srv_fault, file>>

\* The server says true to a delete only of an entry that is there.
DeleteCall(t, op, path, c) ==
  /\ last' = Done(t, op, path, "None", PyNone, c)
  /\ fs' = IF Applied(c) THEN [fs EXCEPT ![path] = Absent] ELSE fs
  /\ UNCHANGED <<thread_local, last_set, srv_fault, file>>

RemoveCall(t, path, reply) ==
  /\ Idle
  /\ SaidTrue(reply) => fs[path] # Absent
  /\ DeleteCall(t, "remove", path, remove(t, path, reply))

RmdirCall(t, path, reply) ==
  /\ Idle
  /\ SaidTrue(reply) => fs[path] # Absent
  /\ DeleteCall(t, "rmdir", path, rmdir(t, path, reply))

RmtreeCall(t, path, reply) ==
  /\ Idle
  /\ SaidTrue(reply) => fs[path] # Absent
  /\ DeleteCall(t, "rmtree", path, rmtree(t, path, reply))

\* The server says true to mkdirs only where no file is in the way.
MkdirCall(t, path, mode, reply) ==
  /\ Idle
  /\ SaidTrue(reply) => fs[path] # "FILE"
  /\ LET c == mkdir(t, path, mode, reply) IN
       /\ last' = Done(t, "mkdir", path, "None", PyNone, c)
       /\ fs' = IF Applied(c) THEN [fs EXCEPT ![path] = "DIRECTORY"] ELSE fs
  /\ UNCHANGED <<thread_local, last_set, srv_fault, file>>

\* The server says true to a rename only of an entry that is there, to a
\* destination that is not.
RenameCall(t, old, new, reply) ==
  /\ Idle
  /\ SaidTrue(reply) => (fs[old] # Absent /\ fs[new] = Absent)
  /\ LET c == rename(t, old, new, reply) IN
       /\ last' = Done(t, "rename", old, new, PyNone, c)
       /\ fs' = IF Applied(c)
                  THEN [fs EXCEPT ![new] = fs[old], ![old] = Absent]
                  ELSE fs
  /\ UNCHANGED <<thread_local, last_set, srv_fault, file>>

Modes == {PyNone, PyInt(493), PyStr("755")}

\* The datanode stores a new file only where there is none, or over a file
\* when told to overwrite.
CreateCall(t, path, a, data, primary, second) ==
  /\ Idle
  /\ second.tag = "return" =>
       (fs[path] = Absent \/ (a.overwrite /\ fs[path] = "FILE"))
  /\ LET c == create(t, path, a.overwrite, a.blocksize, a.replication,
                     a.permission, data, primary, second) IN
       /\ last' = Done(t, "create", path, "None", data, c)
       /\ fs' = IF Stored(c) THEN [fs EXCEPT ![path] = "FILE"] ELSE fs
  /\ UNCHANGED <<thread_local, last_set, srv_fault, file>>

\* The datanode appends only to a file.
AppendCall(t, path, data, primary, second) ==
  /\ Idle
  /\ second.tag = "return" => fs[path] = "FILE"
  /\ last' = Done(t, "append", path, "None", data,
                  append(t, path, data, primary, second))
  /\ UNCHANGED <<thread_local, last_set, fs, srv_fault, file>>

\* A listing: the server answers with what the directory holds.
ListdirStatsCall(t, path, glob, entries) ==
  /\ Idle
  /\ last' = Done(t, "listdir_stats", path, "None", glob,
                  listdir_stats(t, <<path, glob>>, ServerListStatus(path, entries)))
  /\ UNCHANGED <<thread_local, last_set, fs, srv_fault, file>>

ListdirCall(t, path, glob, entries) ==
  /\ Idle
  /\ last' = Done(t, "listdir", path, "None", glob,
                  listdir(t, path, glob, ServerListStatus(path, entries)))
  /\ UNCHANGED <<thread_local, last_set, fs, srv_fault, file>>

\* f = fs.open(path, mode): the program holds the new object, or the one it
\* held when the constructor raised.
OpenCall(t, path, mode, length) ==
  /\ Idle
  /\ fs[path] # "FILE" => length = 0
  /\ LET d == File__init__(t, path, mode, length) IN
       /\ file' = d.file
       /\ last' = FileDone(t, "open", path, PyNone, d, [NoArg EXCEPT !.mode = mode])
  /\ UNCHANGED <<thread_local, last_set, fs, srv_fault>>

Offsets == -1..2
Whences == {SEEK_SET, SEEK_CUR, SEEK_END, 3}

FileSeekCall(t, offset, whence, length, length2) ==
  /\ Idle
  /\ file.open
  /\ (whence # SEEK_END \/ fs[file.path] # "FILE") => (length = 0 /\ length2 = 0)
  /\ LET d == File_seek(t, offset, whence, length, length2) IN
       /\ d.file.pos \in 0..MaxPos
       /\ file' = d.file
       /\ last' = FileDone(t, "seek", file.path, PyNone, d,
                           [NoArg EXCEPT !.offset = offset, !.whence = whence])
  /\ UNCHANGED <<thread_local, last_set, fs, srv_fault>>

FileStatCall(t, length) ==
  /\ Idle
  /\ file.open
  /\ fs[file.path] # "FILE" => length = 0
  /\ LET d == File_stat(t, length) IN
       /\ file' = d.file
       /\ last' = FileDone(t, "stat", file.path, PyNone, d, NoArg)
  /\ UNCHANGED <<thread_local, last_set, fs, srv_fault>>

FileTellCall(t) ==
  /\ Idle
  /\ file.open
  /\ file' = File_tell.file
  /\ last' = FileDone(t, "tell", file.path, PyNone, File_tell, NoArg)
  /\ UNCHANGED <<thread_local, last_set, fs, srv_fault>>

\* The server returns n bytes, never more than it was asked for.
FileReadCall(t, length, n) ==
  /\ Idle
  /\ file.open
  /\ n <= length
  /\ LET d == File_read(t, length, ServerOpen(file.path, n)) IN
       /\ d.call.result.tag = "raise" => n = 0
       /\ d.file.pos \in 0..MaxPos
       /\ file' = d.file
       /\ last' = FileDone(t, "read", file.path, PyNone, d,
                           [NoArg EXCEPT !.length = length])
  /\ UNCHANGED <<thread_local, last_set, fs, srv_fault>>

\* The datanode stores a new file where nothing is, and appends only to a file.
FileStore(t, op, data, d, second) ==
  /\ (second.tag = "return" /\ Len(d.call.reqs) = 2)
       => fs[file.path] = (IF d.call.reqs[1].params["op"] = "CREATE"
                             THEN Absent ELSE "FILE")
  /\ file' = d.file
  /\ last' = FileDone(t, op, file.path, data, d, NoArg)
  /\ fs' = IF Stored(d.call) THEN [fs EXCEPT ![file.path] = "FILE"] ELSE fs
  /\ UNCHANGED <<thread_local, last_set, srv_fault>>

FileWriteCall(t, data, primary, second) ==
  /\ Idle
  /\ file.open
  /\ FileStore(t, "write", data, File_write(t, data, primary, second), second)

FileAppendCall(t, data, primary, second) ==
  /\ Idle
  /\ file.open
  /\ FileStore(t, "append", data, File_append(t, data, primary, second), second)

FileCloseCall(t) ==
  /\ Idle
  /\ file.open
  /\ file' = File_close.file
  /\ last' = FileDone(t, "close", file.path, PyNone, File_close, NoArg)
  /\ UNCHANGED <<thread_local, last_set, fs, srv_fault>>

\* The caller takes the outcome of the call; the client is ready for the next.
Returned ==
  /\ ~Idle
  /\ last' = Nothing
  /\ UNCHANGED <<thread_local, last_set, fs, srv_fault, file>>

\* The server's condition changes under the client: an administrator revokes or
\* restores access, a proxy starts or stops answering in the server's place.
ServerFault(f) ==
  /\ Idle
  /\ f # srv_fault
  /\ srv_fault' = f
  /\ UNCHANGED <<thread_local, last_set, fs, file, last>>

\* The first-leg outcomes a healthy or a refusing namenode gives.
UsualOutcomes ==
  { Raise(WebHdfsException("first leg", "None", HTTPError(307, "http://dn1:50075/w"))),
    Raise(WebHdfsException("first leg", "AccessControlException", HTTPError(403, "None"))) }

\* Every operation of the facade, from any thread, against a server whose
\* namespace and condition change; create and append meet the usual first-leg
\* outcomes.
Next ==
  \/ \E t \in Threads, u \in Users : setuser(t, u)
  \/ \E t \in Threads, p \in Paths : StatsCall(t, p)
  \/ \E t \in Threads, p \in Paths : ExistsCall(t, p)
  \/ \E t \in Threads, p \in Paths : IsDirCall(t, p)
  \/ \E t \in Threads, p \in Paths : IsFileCall(t, p)
  \/ \E t \in Threads, p \in Paths, r \in BooleanReplies : RemoveCall(t, p, r)
  \/ \E t \in Threads, p \in Paths, r \in BooleanReplies : RmdirCall(t, p, r)
  \/ \E t \in Threads, p \in Paths, r \in BooleanReplies : RmtreeCall(t, p, r)
  \/ \E t \in Threads, p \in Paths, m \in Modes, r \in BooleanReplies :
       MkdirCall(t, p, m, r)
  \/ \E t \in Threads, p \in Paths, q \in Paths, r \in BooleanReplies :
       RenameCall(t, p, q, r)
  \/ \E t \in Threads, p \in Paths, a \in CreateArgs, d \in Payloads,
        x \in UsualOutcomes, y \in SecondOutcomes : CreateCall(t, p, a, d, x, y)
  \/ \E t \in Threads, p \in Paths, d \in Payloads,
        x \in UsualOutcomes, y \in SecondOutcomes : AppendCall(t, p, d, x, y)
  \/ \E f \in ServerFaults : ServerFault(f)
  \/ Returned

Spec == Init /\ [][Next]_vars

\* Listings, from any thread, of paths that directories are made at and files
\* stored at, against a server whose condition changes.
NextList ==
  \/ \E t \in Threads, u \in Users : setuser(t, u)
  \/ \E t \in Threads, p \in Paths, m \in Modes, r \in BooleanReplies :
       MkdirCall(t, p, m, r)
  \/ \E t \in Threads, p \in Paths, a \in CreateArgs, d \in Payloads,
        x \in UsualOutcomes, y \in SecondOutcomes : CreateCall(t, p, a, d, x, y)
  \/ \E t \in Threads, p \in Paths, g \in Globs, e \in Listings :
       ListdirStatsCall(t, p, g, e)
  \/ \E t \in Threads, p \in Paths, g \in Globs, e \in Listings :
       ListdirCall(t, p, g, e)
  \/ \E f \in ServerFaults : ServerFault(f)
  \/ Returned

SpecList == Init /\ [][NextList]_vars

\* The threads that use the File object: the one that made the client and one
\* that did not.
FileThreads == {MainThread, CHOOSE t \in Threads : t # MainThread}

\* One File object at a time, on paths where directories are made and entries
\* removed under it.
NextFile ==
  \/ \E t \in FileThreads, p \in Paths, m \in FileModes, n \in Lengths :
       OpenCall(t, p, m, n)
  \/ \E t \in FileThreads, o \in Offsets, w \in Whences, n \in Lengths, k \in Lengths :
       FileSeekCall(t, o, w, n, k)
  \/ \E t \in FileThreads, n \in Lengths : FileStatCall(t, n)
  \/ \E t \in FileThreads : FileTellCall(t)
  \/ \E t \in FileThreads, l \in 1..MaxLen, n \in Lengths : FileReadCall(t, l, n)
  \/ \E t \in FileThreads, d \in Payloads, x \in UsualOutcomes, y \in SecondOutcomes :
       FileWriteCall(t, d, x, y)
  \/ \E t \in FileThreads, d \in Payloads, x \in UsualOutcomes, y \in SecondOutcomes :
       FileAppendCall(t, d, x, y)
  \/ \E t \in FileThreads : FileCloseCall(t)
  \/ \E t \in FileThreads, p \in Paths, r \in BooleanReplies : MkdirCall(t, p, PyNone, r)
  \/ \E t \in FileThreads, p \in Paths, r \in BooleanReplies : RmtreeCall(t, p, r)
  \/ Returned

SpecFile == Init /\ [][NextFile]_vars

\* The writes alone, against every first-leg outcome.
NextRedirect ==
  \/ \E t \in Threads, u \in Users : setuser(t, u)
  \/ \E t \in Threads, p \in Paths, a \in CreateArgs, d \in Payloads,
        x \in PrimaryOutcomes, y \in SecondOutcomes : CreateCall(t, p, a, d, x, y)
  \/ \E t \in Threads, p \in Paths, d \in Payloads,
        x \in PrimaryOutcomes, y \in SecondOutcomes : AppendCall(t, p, d, x, y)
  \/ Returned

SpecRedirect == Init /\ [][NextRedirect]_vars

\* ------------------------------------------------------------------- claims

Writes == {"create", "append"}

\* The first leg of the last call was sent.
Sent == Len(last.reqs) >= 1

\* The first leg failed with an HTTP error of a redirect status.
RedirectStatus(reply) ==
  /\ reply.tag = "raise"
  /\ reply.exc.cls = "WebHdfsException"
  /\ reply.exc.parent.kind = "HTTPError"
  /\ reply.exc.parent.code \in {301, 302, 303, 307}

\* C1: in create and append, when the first leg fails with status 301, 302,
\* 303 or 307 and carries a location, exactly one second request is issued:
\* with the method of the first (PUT for create, POST for append), to the
\* location verbatim with no path or parameters added, with the caller's
\* payload, and with response decoding off.
C1_SecondLegFollowsRedirect ==
  (last.op \in Writes /\ Sent /\ RedirectStatus(last.reply)
     /\ last.reply.exc.parent.location # "None")
  => /\ Len(last.reqs) = 2
     /\ last.reqs[1].method = (IF last.op = "create" THEN "PUT" ELSE "POST")
     /\ last.reqs[2].method = last.reqs[1].method
     /\ last.reqs[2].url = last.reply.exc.parent.location
     /\ last.reqs[2].relpath = "None"
     /\ last.reqs[2].params = EmptyDict
     /\ last.reqs[2].data = last.data
     /\ last.reqs[2].json_decode = FALSE

\* An append was redirected with 303 and its payload went to the location.
C1_Witness ==
  /\ last.op = "append"
  /\ Len(last.reqs) = 2
  /\ last.reply.exc.parent.code = 303
  /\ last.data = PyStr("hi")
  /\ last.reqs[2].method = "POST"
  /\ last.reqs[2].url = "http://dn2:50075/w"

\* C2: in create and append, when the first leg fails with an error that is no
\* HTTP error of status 301, 302, 303 or 307, the caller gets that very error
\* and only the first request was issued.
C2_NonRedirectErrorPropagates ==
  (last.op \in Writes /\ Sent /\ last.reply.tag = "raise"
     /\ ~RedirectStatus(last.reply))
  => /\ last.result = last.reply
     /\ Len(last.reqs) = 1

\* A create was refused with 403, the refusal carried a location header, and
\* the caller got the refusal.
C2_Witness ==
  /\ last.op = "create"
  /\ Len(last.reqs) = 1
  /\ last.reply.tag = "raise"
  /\ last.reply.exc.parent.code = 403
  /\ last.reply.exc.parent.location = "http://dn1:50075/w"
  /\ last.result = last.reply

\* C3: in create and append, when the first leg succeeds instead of
\* redirecting, the call fails with the WebHdfsException "did not return a
\* redirect", only the first request was issued, and it carried no payload.
C3_SuccessWithoutRedirectFails ==
  (last.op \in Writes /\ Sent /\ last.reply.tag = "return")
  => /\ last.result.tag = "raise"
     /\ last.result.exc.cls = "WebHdfsException"
     /\ last.result.exc.msg =
          "Failed to create '" \o last.path \o "'. HDFS did not return a redirect"
     /\ Len(last.reqs) = 1
     /\ last.reqs[1].data = PyNone

\* A create with a payload whose first leg succeeded.
C3_Witness ==
  /\ last.op = "create"
  /\ Sent
  /\ last.reply = Return(PyNone)
  /\ last.data = PyStr("hi")
  /\ last.result.tag = "raise"

\* The error e keeps the failure orig: it is orig, or it wraps what orig wraps.
Preserves(e, orig) ==
  \/ e = orig
  \/ (orig.parent.kind # "None" /\ e.parent = orig.parent)

\* The location of the redirect cannot be had from the failure: it wraps no
\* HTTP error, or its redirect has no location header.
NoLocation(reply) ==
  /\ reply.tag = "raise"
  /\ reply.exc.cls = "WebHdfsException"
  /\ \/ reply.exc.parent.kind # "HTTPError"
     \/ (RedirectStatus(reply) /\ reply.exc.parent.location = "None")

\* C4: in create and append, when the first leg fails and the location cannot
\* be had from the failure, the call fails with an error that preserves the
\* original failure, and only the first request was issued.
C4_NoLocationPreservesFailure ==
  (last.op \in Writes /\ Sent /\ NoLocation(last.reply))
  => /\ last.result.tag = "raise"
     /\ last.result.exc.cls = "WebHdfsException"
     /\ Preserves(last.result.exc, last.reply.exc)
     /\ Len(last.reqs) = 1

\* The operation code each facade operation sends.
OpCodeOf ==
  [stats |-> "GETFILESTATUS", exists |-> "GETFILESTATUS", isdir |-> "GETFILESTATUS",
   isfile |-> "GETFILESTATUS", remove |-> "DELETE", rmdir |-> "DELETE",
   rmtree |-> "DELETE", mkdir |-> "MKDIRS", rename |-> "RENAME",
   create |-> "CREATE", append |-> "APPEND"]

\* C5: under every interleaving of setuser and facade calls of several threads
\* on one client, the first request of each call made on thread T carries an
\* operation code and, as user.name, the identity last given to setuser on T;
\* what each thread holds is what setuser last gave that thread, whatever the
\* other threads set.
C5_RequestsCarryOwnIdentity ==
  /\ \A t \in Threads :
       thread_local[t] = (IF last_set[t] = NeverSet THEN NoAttr ELSE last_set[t])
  /\ (last.op \in DOMAIN OpCodeOf /\ Sent)
     => LET r == last.reqs[1] IN
          /\ r.thread = last.thread
          /\ "op" \in DOMAIN r.params
          /\ r.params["op"] = OpCodeOf[last.op]
          /\ "user.name" \in DOMAIN r.params
          /\ r.params["user.name"] = last_set[last.thread]

\* A thread other than the constructor's sent a request as alice while the
\* constructor's thread is hue_webui.
C5_Witness ==
  /\ last.op = "rename"
  /\ Sent
  /\ last.thread # MainThread
  /\ last_set[last.thread] = "alice"
  /\ last_set[MainThread] = DEFAULT_USER
  /\ last.reqs[1].params["user.name"] = "alice"

\* The server answered the first request with the structured outcome b.
Outcome(b) ==
  /\ Sent
  /\ last.reply.tag = "return"
  /\ "boolean" \in DOMAIN last.reply.value
  /\ last.reply.value.boolean = b

\* The call failed with the IOError of a mutation that did not apply.
OperationFailed ==
  /\ last.result.tag = "raise"
  /\ last.result.exc.cls = "IOError"
  /\ last.result.exc.errno = "None"

\* C6: when the MKDIRS request completes and the server reports
\* {"boolean": false}, mkdir fails with an IOError; it does not return.
C6_MkdirFalseFails ==
  (last.op = "mkdir" /\ Outcome(FALSE)) => OperationFailed

\* C7: in remove, rmdir, rmtree and rename, when the request completes and the
\* server reports boolean false the call fails with an IOError, and the call
\* returns only when the server reported boolean true.
C7_FalseOutcomeFails ==
  (last.op \in {"remove", "rmdir", "rmtree", "rename"} /\ Sent)
  => /\ Outcome(FALSE) => OperationFailed
     /\ last.result.tag = "return" => Outcome(TRUE)

\* A delete of an absent entry: the server answered false and the call failed,
\* leaving the namespace as it was.
C7_Witness ==
  /\ last.op = "rmtree"
  /\ Outcome(FALSE)
  /\ OperationFailed
  /\ last.result.exc.msg = "Delete failed: " \o last.path
  /\ fs[last.path] = Absent

StatOps == {"stats", "exists", "isdir", "isfile"}

\* The server said that there is no such entry.
SaysNotFound(reply) ==
  /\ reply.tag = "raise"
  /\ reply.exc.cls = "WebHdfsException"
  /\ reply.exc.server_exc = "FileNotFoundException"

\* The outcome says that the entry is absent: ENOENT from stats, False from
\* the others.
NotFound(result) ==
  /\ result.tag = "raise"
  /\ result.exc.cls = "IOError"
  /\ result.exc.errno = "ENOENT"

SaysAbsent(op, result) ==
  IF op = "stats" THEN NotFound(result) ELSE result = Return(PyBool(FALSE))

\* C8: in stats, exists, isdir and isfile, a FileNotFoundException of the
\* server becomes the absence result, and nothing else does: any other failure
\* of the stat request reaches the caller as it is, and a reply that is no
\* FileStatus fails too, never as absent, False or ENOENT.
C8_OnlyFileNotFoundIsAbsence ==
  (last.op \in StatOps /\ Sent)
  => /\ SaysNotFound(last.reply) => SaysAbsent(last.op, last.result)
     /\ (last.reply.tag = "raise" /\ ~SaysNotFound(last.reply))
          => last.result = last.reply
     /\ (last.reply.tag = "return" /\ "FileStatus" \notin DOMAIN last.reply.value)
          => (last.result.tag = "raise" /\ ~NotFound(last.result))

\* exists met a permission failure on an absent path and raised it.
C8_Witness ==
  /\ last.op = "exists"
  /\ Sent
  /\ fs[last.path] = Absent
  /\ last.reply.tag = "raise"
  /\ last.reply.exc.server_exc = "AccessControlException"
  /\ last.result = last.reply

\* The stat call does not end in a hard error.
NoHardError(result) == result.tag = "return" \/ NotFound(result)

\* C9: for every path and every state of the server in which stats does not
\* fail with a hard error, exists is true exactly when stats does not signal
\* ENOENT, and stats signals ENOENT exactly when the server reports the entry
\* absent.
C9_ExistsIffStatsFinds ==
  \A t \in Threads, p \in Paths :
    LET s == stats(t, p).result
        e == exists(t, p).result
    IN (thread_local[t] # NoAttr /\ NoHardError(s))
       => /\ e.tag = "return"
          /\ e.value \in {PyBool(TRUE), PyBool(FALSE)}
          /\ (e.value = PyBool(TRUE)) <=> ~NotFound(s)
          /\ NotFound(s) <=> SaysNotFound(ServerGetFileStatus(p))

\* exists was called on a file and said True, in a state whose other path is
\* absent.
C9_Witness ==
  /\ last.op = "exists"
  /\ fs[last.path] = "FILE"
  /\ last.result = Return(PyBool(TRUE))
  /\ \E p \in Paths : fs[p] = Absent /\ NotFound(stats(last.thread, p).result)

IsTrue(result) == result = Return(PyBool(TRUE))
IsFalse(result) == result = Return(PyBool(FALSE))

\* C10: for every path, against one state of the server, isdir and isfile are
\* never both true and are both false exactly when the server reports the
\* entry absent; exists, isdir and isfile each issue the one GETFILESTATUS
\* request and no other.
C10_DirFileExclusiveOneRequest ==
  /\ \A t \in Threads, p \in Paths :
       LET d == isdir(t, p)
           f == isfile(t, p)
       IN thread_local[t] # NoAttr
          => /\ ~(IsTrue(d.result) /\ IsTrue(f.result))
             /\ (IsFalse(d.result) /\ IsFalse(f.result))
                  <=> SaysNotFound(ServerGetFileStatus(p))
             /\ \A c \in {exists(t, p), d, f} :
                  /\ Len(c.reqs) = 1
                  /\ c.reqs[1].method = "GET"
                  /\ c.reqs[1].params["op"] = "GETFILESTATUS"
  /\ last.op \in {"exists", "isdir", "isfile"} => Len(last.reqs) <= 1

\* isdir was called on a directory and said True, where isfile says False.
C10_Witness ==
  /\ last.op = "isdir"
  /\ fs[last.path] = "DIRECTORY"
  /\ IsTrue(last.result)
  /\ Len(last.reqs) = 1
  /\ IsFalse(isfile(last.thread, last.path).result)

\* The forms of the permission rwxr-xr-x that callers pass.
Forms0755 == {PyInt(493), PyStr("755"), PyStr("0755")}

\* C13: the number 0755 and the strings "755" and "0755" all normalize to one
\* transmitted permission: whatever form of it a call passed, the permission
\* it sent is what every other form normalizes to.
C13_OnePermissionValue ==
  (last.op \in {"mkdir", "create"} /\ Sent
     /\ "permission" \in DOMAIN last.reqs[1].params)
  => \A v \in Forms0755 : safe_octal(v) = last.reqs[1].params["permission"]

\* C15: in every create and append the first request is a PUT for create and a
\* POST for append, to the path on the client's own URL, with the operation
\* code, the identity and (for create) the overwrite flag, and without the
\* payload; the payload travels at most once, on the second request.
C15_FirstLegWithoutPayload ==
  (last.op \in Writes /\ Sent)
  => /\ Len(last.reqs) <= 2
     /\ LET r == last.reqs[1] IN
          /\ r.method = (IF last.op = "create" THEN "PUT" ELSE "POST")
          /\ r.url = SelfUrl
          /\ r.relpath = last.path
          /\ r.data = PyNone
          /\ {"op", "user.name"} \subseteq DOMAIN r.params
          /\ r.params["op"] = (IF last.op = "create" THEN "CREATE" ELSE "APPEND")
          /\ r.params["user.name"] = thread_local[last.thread]
          /\ last.op = "create"
               => ("overwrite" \in DOMAIN r.params
                   /\ r.params["overwrite"] \in {"true", "false"})
          /\ last.op = "append" => DOMAIN r.params = {"op", "user.name"}
     /\ Len(last.reqs) = 2 => last.reqs[2].data = last.data

\* A create with every optional argument and a payload was redirected: the
\* first request had the parameters and no payload, the second the payload.
C15_Witness ==
  /\ last.op = "create"
  /\ Len(last.reqs) = 2
  /\ last.data = PyStr("hi")
  /\ last.reqs[1].data = PyNone
  /\ DOMAIN last.reqs[1].params =
       {"op", "user.name", "overwrite", "blocksize", "replication", "permission"}
  /\ last.reqs[2].data = PyStr("hi")

\* The first leg was the redirect the protocol expects.
Redirected ==
  /\ last.op \in Writes
  /\ Sent
  /\ RedirectStatus(last.reply)
  /\ last.reply.exc.parent.location # "None"

\* C16: when the first leg of a create or append fails with a redirect status
\* and a location, the caller never gets that failure: the call returns
\* exactly when the second leg succeeds, a failure of the second leg is what
\* the caller gets, and there are the two requests and no more.
C16_OnlySecondLegCounts ==
  Redirected
  => /\ Len(last.reqs) = 2
     /\ last.reply2.tag \in {"return", "raise"}
     /\ last.result.tag = "return" <=> last.reply2.tag = "return"
     /\ last.reply2.tag = "raise" => last.result = last.reply2
     /\ last.result # last.reply

\* An append was redirected and its second leg succeeded: append returned None.
C16_Witness ==
  /\ Redirected
  /\ last.op = "append"
  /\ last.reply2.tag = "return"
  /\ last.result = Return(PyNone)

\* C19: a facade call on a thread that has not called setuser, the
\* constructor's or any other, sends its request as hue_webui.
C19_DefaultIdentityOnEveryThread ==
  (last.op \in DOMAIN OpCodeOf /\ last_set[last.thread] \in {NeverSet, DEFAULT_USER})
  => /\ Sent
     /\ last.reqs[1].params["user.name"] = "hue_webui"

\* listdir_stats succeeds for the path and glob of the last call: some listing
\* the server can give makes it return.
ListdirStatsSucceeds ==
  \E e \in Listings :
    listdir_stats(last.thread, <<last.path, last.data>>,
                  ServerListStatus(last.path, e)).result.tag = "return"

\* C14: where listdir_stats succeeds, listdir issues one LISTSTATUS request and
\* returns the path of each entry that listdir_stats makes of the reply, in the
\* reply's order.
C14_ListdirGivesEntryPaths ==
  (last.op = "listdir" /\ ListdirStatsSucceeds)
  => /\ Len(last.reqs) = 1
     /\ last.reqs[1].params["op"] = "LISTSTATUS"
     /\ LET c == listdir_stats(last.thread, <<last.path, last.data>>, last.reply)
        IN /\ c.result.tag = "return"
           /\ last.result = Return(EntryPaths(c.result.value))

\* listdir_stats itself returned a listing of two entries.
ListdirStatsListed ==
  /\ last.op = "listdir_stats"
  /\ last.result.tag = "return"
  /\ Len(last.result.value.items) = 2
  /\ last.result.value.items[1].path = last.path \o "/sub"

\* ------------------------------------------------------------ File objects

FileWrites == {"write", "append"}

\* The call failed with IOError(EINVAL) and sent nothing.
InvalidArgument ==
  /\ last.result.tag = "raise"
  /\ last.result.exc.cls = "IOError"
  /\ last.result.exc.errno = "EINVAL"
  /\ last.reqs = <<>>

\* C11: File(fs, path, 'r') raises when the path is a directory and when it is
\* absent, so that a File object in read mode is only ever one made on what was
\* a file then.
C11_ReadOpenNeedsFile ==
  /\ (last.op = "open" /\ last.arg.mode = "r" /\ fs[last.path] # "FILE")
       => last.result.tag = "raise"
  /\ (file.open /\ file.mode = "r") => file.at_open = "FILE"

\* C12: write and append on a File object whose mode has no 'w', and seek with
\* a whence that is none of SEEK_SET, SEEK_CUR and SEEK_END, raise
\* IOError(EINVAL) without a request, and leave the cursor and the recorded
\* stat as they were.
C12_InvalidArgumentBeforeAnyRequest ==
  (\/ last.op \in FileWrites /\ ~Has_w(last.before.mode)
   \/ last.op = "seek" /\ last.arg.whence \notin {SEEK_SET, SEEK_CUR, SEEK_END})
  => /\ InvalidArgument
     /\ file.pos = last.before.pos
     /\ file.stat = last.before.stat

\* A write was refused on an object made in read mode on a file, with the
\* cursor moved off the start.
C12_Witness ==
  /\ last.op = "write"
  /\ last.before.mode = "r"
  /\ last.before.stat # PyNone
  /\ last.before.pos > 0
  /\ InvalidArgument

\* C17: a write or append through a File object in write mode sends CREATE when
\* the path was absent when the object was made and APPEND otherwise: never
\* CREATE where a file or a directory was then.
C17_RouteByEntryAtOpen ==
  (last.op \in FileWrites /\ Has_w(last.before.mode) /\ Sent)
  => last.reqs[1].params["op"] =
       (IF last.before.at_open = Absent THEN "CREATE" ELSE "APPEND")

\* The length in the reply to the second stats call of a seek from the end.
FreshLength == last.reply2.value.FileStatus.length

\* C18: the cursor is 0 on a new File object; seek sets it to the offset, moves
\* it by the offset, or sets it to the freshly reported length plus the offset;
\* read asks for the data at the cursor and moves it by the length of the data
\* it got; tell returns it; a seek or a read that fails leaves it alone.
C18_CursorFollowsReference ==
  /\ (last.op = "open" /\ last.result.tag = "return") => file.pos = 0
  /\ last.op = "seek" =>
       file.pos = IF last.result.tag = "raise" THEN last.before.pos
                  ELSE IF last.arg.whence = SEEK_SET THEN last.arg.offset
                  ELSE IF last.arg.whence = SEEK_CUR
                    THEN last.before.pos + last.arg.offset
                  ELSE FreshLength + last.arg.offset
  /\ last.op = "read" =>
       /\ Sent => /\ Len(last.reqs) = 1
                  /\ last.reqs[1].params["op"] = "OPEN"
                  /\ last.reqs[1].relpath = last.before.path
                  /\ last.reqs[1].params["offset"] = ToString(last.before.pos)
                  /\ last.reqs[1].params["length"] = ToString(last.arg.length)
       /\ file.pos = IF last.result.tag = "return"
                       THEN last.before.pos + Len(last.result.value.s)
                       ELSE last.before.pos
  /\ last.op = "tell" =>
       /\ last.result = Return(PyInt(last.before.pos))
       /\ file.pos = last.before.pos

\* A read past the start got fewer bytes than it asked for, and the cursor
\* moved by as many.
C18_Witness ==
  /\ last.op = "read"
  /\ last.before.pos > 0
  /\ last.result.tag = "return"
  /\ Len(last.result.value.s) = 1
  /\ last.arg.length = 2
  /\ file.pos = last.before.pos + 1

====
